---- MODULE Spec2Model ----
(***************************************************************************)
(* The named_pipe callback plugin (src/named_pipe.py): one CallbackModule  *)
(* instance, the file object it opens on the named pipe, and the nine      *)
(* notification handlers the engine delivers to it.                        *)
(*                                                                         *)
(* The module is Python 2 source (the literal 0600, __metaclass__).  An    *)
(* instance is its attribute dictionary: reading an attribute that was     *)
(* never assigned raises AttributeError, and an exception ends the method  *)
(* where it is raised, keeping the assignments made before it.             *)
(*                                                                         *)
(* The engine's dispatch is outside the repository.  The model delivers    *)
(* any notification to the instance once __init__ has ended (normally or   *)
(* by an exception) and before __del__ has run, so every handler is        *)
(* exercised on every attribute dictionary __init__ can leave behind.      *)
(***************************************************************************)
EXTENDS Integers, Sequences, FiniteSets, TLC

VARIABLES
    env,          \* the process environment and the platform, fixed per run
    life,         \* "new" (not constructed), "inited" (__init__ ended), "deleted"
    self,         \* the instance's attribute dictionary
    pipe,         \* the file object opened at line 57
    reader,       \* the consumer's end of the named pipe: "open" or "closed"
    warnings,     \* number of warnings surfaced through self._display.warning
    opens,        \* the arguments of every open() call made, in order
    init_raised,  \* how __init__ ended: "none" or the exception it raised
    del_raised,   \* how __del__ ended: "none" or the exception it raised
    calls,        \* history: every notification delivered, with its outcome
    shared        \* two processes writing to one named pipe, and what reached it

vars == <<env, life, self, pipe, reader, warnings, opens, init_raised, del_raised, calls,
         shared>>

(***************************************************************************)
(* Bounds and input sets.                                                  *)
(***************************************************************************)
\* At most MaxCalls notifications are delivered, of which at most MaxRaised
\* end in an exception.
MaxCalls == 3

MaxRaised == 2

None == "None"

\* The environments a process starts in: ANSIBLE_NAMED_PIPE and
\* ANSIBLE_SESSION_ID (None when unset), and whether open() of the path
\* succeeds on this platform (read only when a path is given).
Envs ==
    {[pipe_path |-> None, session_id |-> None, can_open |-> TRUE],
     [pipe_path |-> "/tmp/ansible.fifo", session_id |-> None, can_open |-> FALSE],
     [pipe_path |-> "/tmp/ansible.fifo", session_id |-> None, can_open |-> TRUE],
     [pipe_path |-> "/tmp/ansible.fifo", session_id |-> "abc", can_open |-> TRUE]}

Hostname == "worker1"

Uuid1 == "0f1e2d3c-uuid1"

\* Target hosts, with the character codes Python compares strings by.
Hosts == {"h2", "h10"}

Chars(h) == IF h = "h2" THEN <<104, 50>> ELSE <<104, 49, 48>>

\* Plays handed to v2_playbook_on_play_start (play.name, play._uuid).
Plays == {[name |-> "deploy", uuid |-> "pb-1"], [name |-> "site", uuid |-> "pb-2"]}

\* TaskResult objects handed to the runner handlers
\* (result._host, result._task, result._result).
Results ==
    {[host |-> "h2", task |-> "Restart service", result |-> [msg |-> "timeout"]],
     [host |-> "h10", task |-> "Copy file",
      result |-> [dest |-> "/etc/app.conf", state |-> "file"]]}

\* stats.summarize(host) for each host the engine processed.
Summaries ==
    [h \in Hosts |->
        IF h = "h2"
        THEN [ok |-> 0, failures |-> 1, unreachable |-> 0, changed |-> 0, skipped |-> 0]
        ELSE [ok |-> 2, failures |-> 0, unreachable |-> 0, changed |-> 1, skipped |-> 0]]

\* stats.processed.keys(): the processed hosts in the dictionary's iteration order.
KeyOrders ==
    {<<>>, <<"h10">>, <<"h2", "h10">>, <<"h10", "h2">>}

StatsInputs == [processed : KeyOrders, summarize : {Summaries}]

(***************************************************************************)
(* Python attribute access.                                                *)
(***************************************************************************)
HasAttr(o, a) == a \in DOMAIN o

HasAttrs(o, as) == as \subseteq DOMAIN o

SetAttr(o, a, v) == [x \in (DOMAIN o) \cup {a} |-> IF x = a THEN v ELSE o[x]]

NoAttrs == [x \in {} |-> None]

Outcome(o, f, e) == [self |-> o, pipe |-> f, raised |-> e]

(***************************************************************************)
(* json.dumps and the line written by write_to_pipe.                       *)
(***************************************************************************)
RECURSIVE SumFun(_, _)
SumFun(f, S) ==
    IF S = {} THEN 0
    ELSE LET x == CHOOSE y \in S : TRUE IN f[x] + SumFun(f, S \ {x})

\* Length of json.dumps of a dictionary whose values have the lengths vlen[k]:
\* braces, "key": value items, ", " between items.
ObjectLen(vlen) ==
    LET n == Cardinality(DOMAIN vlen)
    IN 2 + SumFun([k \in DOMAIN vlen |-> Len(k) + 4 + vlen[k]], DOMAIN vlen)
         + (IF n > 1 THEN 2 * (n - 1) ELSE 0)

\* Mutant of DumpResults: the text is rendered from the payload without its
\* 'msg' key.
DumpResults_abridged(r) == <<"json-text", [k \in (DOMAIN r) \ {"msg"} |-> r[k]]>>

\* CallbackBase._dump_results(result._result): the result rendered as JSON
\* text, a string, not the structure itself.
DumpResults(r) == <<"json-text", r>>

\* Length of that text, and of the text again quoted as a JSON string
\* (each of its double quotes escaped).
DumpLen(r) == ObjectLen([k \in DOMAIN r |-> Len(r[k]) + 2])

QuotedDumpLen(r) == DumpLen(r) + 4 * Cardinality(DOMAIN r) + 2

\* json.dumps of one value of the event dictionary, by the Python type the
\* handlers put under that key: a dict under 'stats', the _dump_results text
\* under 'ansible_result', a str or None elsewhere.
JsonValue(k, v) ==
    CASE k = "stats" -> <<"object", v>>
      [] k = "ansible_result" -> <<"string", v>>
      [] OTHER -> IF v = None THEN <<"null">> ELSE <<"string", v>>

JsonValueLen(k, v) ==
    CASE k = "stats" -> ObjectLen([s \in DOMAIN v |-> 1])
      [] k = "ansible_result" -> QuotedDumpLen(v[2])
      [] OTHER -> IF v = None THEN 4 ELSE Len(v) + 2

Dumps(data) == [k \in DOMAIN data |-> JsonValue(k, data[k])]

DumpsLen(data) == ObjectLen([k \in DOMAIN data |-> JsonValueLen(k, data[k])])

\* '%s\n' % json.dumps(data)
Line(data) ==
    [json |-> Dumps(data), end |-> "\n", bytes |-> DumpsLen(data) + 1]

\* A line of which the file object has taken the first n bytes.
Taken(line, n) ==
    [json |-> line.json, end |-> line.end, bytes |-> line.bytes, taken |-> n]

(***************************************************************************)
(* The file object of open(pipe_path, "w", 0600).  The third argument of   *)
(* open is the buffer size: 0600 octal = 384 bytes, fully buffered.        *)
(***************************************************************************)
BufSize == 384

NoFile == [mode |-> "none", lines |-> <<>>, accepted |-> 0, flushed |-> 0]

OpenFile == [mode |-> "open", lines |-> <<>>, accepted |-> 0, flushed |-> 0]

Pending(f) == f.accepted - f.flushed

\* file.write(s) on a fully buffered stream: s is copied into the buffer when
\* it fits; otherwise the buffer is filled and written out, whole blocks of
\* the rest are written directly and the remainder stays buffered.  Writing
\* out to a pipe whose reader is gone fails (EPIPE, raised as IOError) with
\* the buffer left full.
FileWrite(f, rd, line) ==
    LET room == BufSize - Pending(f)
        rest == line.bytes - room
    IN IF line.bytes <= room
       THEN [file |-> [f EXCEPT !.lines = Append(@, Taken(line, line.bytes)),
                                !.accepted = @ + line.bytes],
             raised |-> "none"]
       ELSE IF rd = "open"
       THEN [file |-> [f EXCEPT !.lines = Append(@, Taken(line, line.bytes)),
                                !.accepted = @ + line.bytes,
                                !.flushed = @ + BufSize + (rest - (rest % BufSize))],
             raised |-> "none"]
       ELSE [file |-> [f EXCEPT !.lines = IF room > 0
                                          THEN Append(@, Taken(line, room))
                                          ELSE @,
                                !.accepted = @ + room],
             raised |-> "IOError"]

\* file.close(): writes out what is buffered and closes the descriptor.
FileClose(f, rd) ==
    IF Pending(f) = 0 \/ rd = "open"
    THEN [file |-> [f EXCEPT !.mode = "closed", !.flushed = f.accepted],
          raised |-> "none"]
    ELSE [file |-> [f EXCEPT !.mode = "closed"], raised |-> "IOError"]

write_to_pipe(o, f, rd, data) ==
    IF ~HasAttr(o, "pipe") THEN Outcome(o, f, "AttributeError")
    ELSE IF f.mode # "open" THEN Outcome(o, f, "ValueError")
    ELSE LET w == FileWrite(f, rd, Line(data))
         IN Outcome(o, w.file, w.raised)

(***************************************************************************)
(* sorted(): ascending order of Python strings, compared character by      *)
(* character, a proper prefix first.                                       *)
(***************************************************************************)
RECURSIVE LexLess(_, _)
LexLess(s, t) ==
    IF s = <<>> THEN t # <<>>
    ELSE IF t = <<>> THEN FALSE
    ELSE IF Head(s) # Head(t) THEN Head(s) < Head(t)
    ELSE LexLess(Tail(s), Tail(t))

StrLess(a, b) == LexLess(Chars(a), Chars(b))

RECURSIVE Insert(_, _)
Insert(x, s) ==
    IF s = <<>> THEN <<x>>
    ELSE IF StrLess(x, Head(s)) THEN <<x>> \o s
    ELSE <<Head(s)>> \o Insert(x, Tail(s))

\* Mutant of sorted: the keys are left in the dictionary's iteration order.
sorted_not(s) == s

RECURSIVE sorted(_)
sorted(s) == IF s = <<>> THEN <<>> ELSE Insert(Head(s), sorted(Tail(s)))

\* str(result._task)
TaskStr(t) == "TASK: " \o t

(***************************************************************************)
(* The handlers.  Each takes the instance o, the file object f, the        *)
(* reader's state rd and the engine's argument, and yields the instance    *)
(* and file object it leaves with the exception it raised ("none" when it  *)
(* returned).                                                              *)
(***************************************************************************)
\* Mutant of v2_playbook_on_play_start: the start event is built without 'session'.
v2_playbook_on_play_start_no_session(o, f, rd, play) ==
    LET o1 == SetAttr(o, "playbook", play.name)
        o2 == SetAttr(o1, "uuid", play.uuid)
    IN IF ~HasAttrs(o2, {"hostname"})
       THEN Outcome(o2, f, "AttributeError")
       ELSE write_to_pipe(o2, f, rd,
                [status |-> "OK",
                 host |-> o2["hostname"],
                 playbook_name |-> o2["playbook"],
                 playbook_id |-> o2["uuid"],
                 ansible_type |-> "start"])

v2_playbook_on_play_start(o, f, rd, play) ==
    LET o1 == SetAttr(o, "playbook", play.name)
        o2 == SetAttr(o1, "uuid", play.uuid)
    IN IF ~HasAttrs(o2, {"hostname", "session"})
       THEN Outcome(o2, f, "AttributeError")
       ELSE write_to_pipe(o2, f, rd,
                [status |-> "OK",
                 host |-> o2["hostname"],
                 session |-> o2["session"],
                 playbook_name |-> o2["playbook"],
                 playbook_id |-> o2["uuid"],
                 ansible_type |-> "start"])

\* for host in hosts: one statistics event per host, until one raises.
RECURSIVE StatsLoop(_, _, _, _, _)
StatsLoop(o, f, rd, stats, hosts) ==
    IF hosts = <<>> THEN Outcome(o, f, "none")
    ELSE LET host == Head(hosts)
             stat == stats.summarize[host]
         IN IF ~HasAttrs(o, {"hostname", "uuid", "playbook"})
            THEN Outcome(o, f, "AttributeError")
            ELSE LET w == write_to_pipe(o, f, rd,
                              [host |-> o["hostname"],
                               ansible_host |-> host,
                               playbook_id |-> o["uuid"],
                               playbook_name |-> o["playbook"],
                               stats |-> stat])
                 IN IF w.raised # "none" THEN w
                    ELSE StatsLoop(w.self, w.pipe, rd, stats, Tail(hosts))

\* Mutant of v2_playbook_on_stats: the stream is closed once the summary is written.
v2_playbook_on_stats_then_close(o, f, rd, stats) ==
    LET hosts == sorted(stats.processed)
        l == StatsLoop(o, f, rd, stats, hosts)
    IN IF l.raised # "none" THEN l
       ELSE IF ~HasAttr(l.self, "errors") THEN Outcome(l.self, l.pipe, "AttributeError")
       ELSE LET status == IF l.self["errors"] > 0 THEN "FAILED" ELSE "OK"
            IN IF ~HasAttrs(l.self, {"uuid", "playbook"})
               THEN Outcome(l.self, l.pipe, "AttributeError")
               ELSE LET w == write_to_pipe(l.self, l.pipe, rd,
                                 [playbook_id |-> l.self["uuid"],
                                  playbook_name |-> l.self["playbook"],
                                  status |-> status])
                    IN IF w.raised # "none" THEN w
                       ELSE LET c == FileClose(w.pipe, rd)
                            IN Outcome(w.self, c.file, c.raised)

\* Mutant of v2_playbook_on_stats: the summary status is taken from the
\* per-host statistics instead of the error counter.
v2_playbook_on_stats_from_stats(o, f, rd, stats) ==
    LET hosts == sorted(stats.processed)
        l == StatsLoop(o, f, rd, stats, hosts)
    IN IF l.raised # "none" THEN l
       ELSE IF ~HasAttr(l.self, "errors") THEN Outcome(l.self, l.pipe, "AttributeError")
       ELSE LET status == IF \E k \in DOMAIN hosts : stats.summarize[hosts[k]].failures > 0
                          THEN "FAILED" ELSE "OK"
            IN IF ~HasAttrs(l.self, {"uuid", "playbook"})
               THEN Outcome(l.self, l.pipe, "AttributeError")
               ELSE write_to_pipe(l.self, l.pipe, rd,
                        [playbook_id |-> l.self["uuid"],
                         playbook_name |-> l.self["playbook"],
                         status |-> status])

v2_playbook_on_stats(o, f, rd, stats) ==
    LET hosts == sorted(stats.processed)
        l == StatsLoop(o, f, rd, stats, hosts)
    IN IF l.raised # "none" THEN l
       ELSE IF ~HasAttr(l.self, "errors") THEN Outcome(l.self, l.pipe, "AttributeError")
       ELSE LET status == IF l.self["errors"] > 0 THEN "FAILED" ELSE "OK"
            IN IF ~HasAttrs(l.self, {"uuid", "playbook"})
               THEN Outcome(l.self, l.pipe, "AttributeError")
               ELSE write_to_pipe(l.self, l.pipe, rd,
                        [playbook_id |-> l.self["uuid"],
                         playbook_name |-> l.self["playbook"],
                         status |-> status])

v2_runner_on_ok(o, f, rd, result) ==
    LET host == result.host
    IN IF ~HasAttrs(o, {"hostname", "session", "playbook", "uuid"})
       THEN Outcome(o, f, "AttributeError")
       ELSE write_to_pipe(o, f, rd,
                [status |-> "OK",
                 host |-> o["hostname"],
                 ansible_host |-> host,
                 session |-> o["session"],
                 ansible_type |-> "task",
                 playbook_name |-> o["playbook"],
                 playbook_id |-> o["uuid"],
                 ansible_task |-> TaskStr(result.task),
                 ansible_result |-> DumpResults(result.result)])

\* Mutant of v2_runner_on_failed: the error counter is incremented after the
\* event has been written.
v2_runner_on_failed_counted_last(o, f, rd, result) ==
    IF ~HasAttrs(o, {"hostname", "uuid", "session", "playbook"})
    THEN Outcome(o, f, "AttributeError")
    ELSE LET w == write_to_pipe(o, f, rd,
                      [status |-> "FAILED",
                       host |-> o["hostname"],
                       playbook_id |-> o["uuid"],
                       session |-> o["session"],
                       ansible_type |-> "task",
                       playbook_name |-> o["playbook"],
                       ansible_host |-> result.host,
                       ansible_task |-> TaskStr(result.task),
                       ansible_result |-> DumpResults(result.result)])
         IN IF w.raised # "none" THEN w
            ELSE IF ~HasAttr(w.self, "errors") THEN Outcome(w.self, w.pipe, "AttributeError")
            ELSE Outcome([w.self EXCEPT !["errors"] = @ + 1], w.pipe, "none")

v2_runner_on_failed(o, f, rd, result) ==
    IF ~HasAttr(o, "errors") THEN Outcome(o, f, "AttributeError")
    ELSE LET o1 == [o EXCEPT !["errors"] = @ + 1]
         IN IF ~HasAttrs(o1, {"hostname", "uuid", "session", "playbook"})
            THEN Outcome(o1, f, "AttributeError")
            ELSE write_to_pipe(o1, f, rd,
                     [status |-> "FAILED",
                      host |-> o1["hostname"],
                      playbook_id |-> o1["uuid"],
                      session |-> o1["session"],
                      ansible_type |-> "task",
                      playbook_name |-> o1["playbook"],
                      ansible_host |-> result.host,
                      ansible_task |-> TaskStr(result.task),
                      ansible_result |-> DumpResults(result.result)])

\* Mutant of v2_runner_on_unreachable: the status of v2_runner_on_failed.
v2_runner_on_unreachable_as_failed(o, f, rd, result) ==
    LET host == result.host
    IN IF ~HasAttr(o, "errors") THEN Outcome(o, f, "AttributeError")
       ELSE LET o1 == [o EXCEPT !["errors"] = @ + 1]
            IN IF ~HasAttrs(o1, {"hostname", "session", "playbook", "uuid"})
               THEN Outcome(o1, f, "AttributeError")
               ELSE write_to_pipe(o1, f, rd,
                        [status |-> "FAILED",
                         host |-> o1["hostname"],
                         session |-> o1["session"],
                         ansible_type |-> "task",
                         playbook_name |-> o1["playbook"],
                         playbook_id |-> o1["uuid"],
                         ansible_host |-> host,
                         ansible_task |-> TaskStr(result.task),
                         ansible_result |-> DumpResults(result.result)])

v2_runner_on_unreachable(o, f, rd, result) ==
    LET host == result.host
    IN IF ~HasAttr(o, "errors") THEN Outcome(o, f, "AttributeError")
       ELSE LET o1 == [o EXCEPT !["errors"] = @ + 1]
            IN IF ~HasAttrs(o1, {"hostname", "session", "playbook", "uuid"})
               THEN Outcome(o1, f, "AttributeError")
               ELSE write_to_pipe(o1, f, rd,
                        [status |-> "UNREACHABLE",
                         host |-> o1["hostname"],
                         session |-> o1["session"],
                         ansible_type |-> "task",
                         playbook_name |-> o1["playbook"],
                         playbook_id |-> o1["uuid"],
                         ansible_host |-> host,
                         ansible_task |-> TaskStr(result.task),
                         ansible_result |-> DumpResults(result.result)])

\* Mutant of v2_runner_on_async_failed: the error counter is left alone.
v2_runner_on_async_failed_uncounted(o, f, rd, result) ==
    IF ~HasAttrs(o, {"hostname", "session", "playbook", "uuid"})
    THEN Outcome(o, f, "AttributeError")
    ELSE write_to_pipe(o, f, rd,
             [status |-> "FAILED",
              host |-> o["hostname"],
              session |-> o["session"],
              ansible_type |-> "task",
              playbook_name |-> o["playbook"],
              playbook_id |-> o["uuid"],
              ansible_host |-> result.host,
              ansible_task |-> TaskStr(result.task),
              ansible_result |-> DumpResults(result.result)])

v2_runner_on_async_failed(o, f, rd, result) ==
    IF ~HasAttr(o, "errors") THEN Outcome(o, f, "AttributeError")
    ELSE LET o1 == [o EXCEPT !["errors"] = @ + 1]
         IN IF ~HasAttrs(o1, {"hostname", "session", "playbook", "uuid"})
            THEN Outcome(o1, f, "AttributeError")
            ELSE write_to_pipe(o1, f, rd,
                     [status |-> "FAILED",
                      host |-> o1["hostname"],
                      session |-> o1["session"],
                      ansible_type |-> "task",
                      playbook_name |-> o1["playbook"],
                      playbook_id |-> o1["uuid"],
                      ansible_host |-> result.host,
                      ansible_task |-> TaskStr(result.task),
                      ansible_result |-> DumpResults(result.result)])

v2_runner_item_on_ok(o, f, rd, result) ==
    IF ~HasAttrs(o, {"hostname", "session", "playbook", "uuid"})
    THEN Outcome(o, f, "AttributeError")
    ELSE write_to_pipe(o, f, rd,
             [status |-> "OK",
              host |-> o["hostname"],
              session |-> o["session"],
              ansible_type |-> "item",
              playbook_name |-> o["playbook"],
              playbook_id |-> o["uuid"],
              ansible_host |-> result.host,
              ansible_task |-> TaskStr(result.task),
              ansible_result |-> DumpResults(result.result)])

\* Mutant of v2_runner_item_on_failed: the item failure is counted as a task failure.
v2_runner_item_on_failed_counted(o, f, rd, result) ==
    IF ~HasAttr(o, "errors") THEN Outcome(o, f, "AttributeError")
    ELSE LET o1 == [o EXCEPT !["errors"] = @ + 1]
         IN IF ~HasAttrs(o1, {"hostname", "session", "playbook", "uuid"})
            THEN Outcome(o1, f, "AttributeError")
            ELSE write_to_pipe(o1, f, rd,
                     [status |-> "FAILED",
                      host |-> o1["hostname"],
                      session |-> o1["session"],
                      ansible_type |-> "item",
                      playbook_name |-> o1["playbook"],
                      playbook_id |-> o1["uuid"],
                      ansible_host |-> result.host,
                      ansible_task |-> TaskStr(result.task),
                      ansible_result |-> DumpResults(result.result)])

v2_runner_item_on_failed(o, f, rd, result) ==
    IF ~HasAttrs(o, {"hostname", "session", "playbook", "uuid"})
    THEN Outcome(o, f, "AttributeError")
    ELSE write_to_pipe(o, f, rd,
             [status |-> "FAILED",
              host |-> o["hostname"],
              session |-> o["session"],
              ansible_type |-> "item",
              playbook_name |-> o["playbook"],
              playbook_id |-> o["uuid"],
              ansible_host |-> result.host,
              ansible_task |-> TaskStr(result.task),
              ansible_result |-> DumpResults(result.result)])

v2_runner_item_on_skipped(o, f, rd, result) ==
    IF ~HasAttrs(o, {"hostname", "session", "playbook", "uuid"})
    THEN Outcome(o, f, "AttributeError")
    ELSE write_to_pipe(o, f, rd,
             [status |-> "SKIPPED",
              host |-> o["hostname"],
              session |-> o["session"],
              ansible_type |-> "item",
              playbook_name |-> o["playbook"],
              playbook_id |-> o["uuid"],
              ansible_host |-> result.host,
              ansible_task |-> TaskStr(result.task),
              ansible_result |-> DumpResults(result.result)])

v2_runner_item_on_retry(o, f, rd, result) ==
    IF ~HasAttrs(o, {"hostname", "session", "playbook", "uuid"})
    THEN Outcome(o, f, "AttributeError")
    ELSE write_to_pipe(o, f, rd,
             [status |-> "RETRY",
              host |-> o["hostname"],
              session |-> o["session"],
              ansible_type |-> "item",
              playbook_name |-> o["playbook"],
              playbook_id |-> o["uuid"],
              ansible_host |-> result.host,
              ansible_task |-> TaskStr(result.task),
              ansible_result |-> DumpResults(result.result)])

(***************************************************************************)
(* Construction and teardown.                                              *)
(***************************************************************************)
\* What `import datetime` (line 22) binds: the module, with these attributes.
DatetimeModule == {"date", "time", "datetime", "timedelta", "tzinfo", "MINYEAR", "MAXYEAR"}

\* CallbackModule.__init__: lines 50-62, statement by statement.
Construct(e) ==
    LET pipe_path == e.pipe_path
        warned == pipe_path = None
        o1 == IF warned THEN SetAttr(NoAttrs, "disabled", TRUE) ELSE NoAttrs
        session == IF e.session_id = None THEN Uuid1 ELSE e.session_id
        o2 == SetAttr(o1, "pipe", "file")
        o3 == SetAttr(o2, "session", session)
        o4 == SetAttr(o3, "hostname", Hostname)
        o5 == SetAttr(o4, "uuid", None)
        o6 == SetAttr(o5, "errors", 0)
        o7 == SetAttr(o6, "start_time", "utcnow")
    IN [warned |-> warned,
        opened |-> pipe_path,
        out |-> IF pipe_path = None THEN Outcome(o1, NoFile, "TypeError")
                ELSE IF ~e.can_open THEN Outcome(o1, NoFile, "IOError")
                ELSE IF "utcnow" \notin DatetimeModule
                THEN Outcome(o6, OpenFile, "AttributeError")
                ELSE Outcome(o7, OpenFile, "none")]

\* CallbackModule.__del__: self.pipe.close()
Destruct(o, f, rd) ==
    IF ~HasAttr(o, "pipe") THEN Outcome(o, f, "AttributeError")
    ELSE LET c == FileClose(f, rd) IN Outcome(o, c.file, c.raised)

(***************************************************************************)
(* Two processes, each with its own CallbackModule instance and its own    *)
(* file object, opened on the same named pipe.  The pipe holds the blocks  *)
(* of bytes the file objects wrote out, in the order they arrived: a block *)
(* is the bytes from..to of its writer's stream.                           *)
(***************************************************************************)
MaxSharedCalls == 3

Writers == {"A", "B"}

SharedEnv == [pipe_path |-> "/tmp/ansible.fifo", session_id |-> None, can_open |-> TRUE]

WriterPlay(w) ==
    CHOOSE p \in Plays : p.name = (IF w = "A" THEN "deploy" ELSE "site")

NewWriter == [life |-> "new", self |-> NoAttrs, pipe |-> NoFile, n |-> 0]

NoWriters == [procs |-> [w \in Writers |-> NewWriter], fifo |-> <<>>]

\* What the file object g, which was f, has written out since.
Arrive(fifo, w, f, g) ==
    IF g.flushed > f.flushed
    THEN Append(fifo, [writer |-> w, from |-> f.flushed, to |-> g.flushed])
    ELSE fifo

(***************************************************************************)
(* The state machine.                                                      *)
(***************************************************************************)
Init ==
    /\ env \in Envs
    /\ life = "new"
    /\ self = NoAttrs
    /\ pipe = NoFile
    /\ reader = "open"
    /\ warnings = 0
    /\ opens = <<>>
    /\ init_raised = "none"
    /\ del_raised = "none"
    /\ calls = <<>>
    /\ shared = NoWriters

initialize ==
    /\ life = "new"
    /\ LET c == Construct(env)
       IN /\ warnings' = warnings + (IF c.warned THEN 1 ELSE 0)
          /\ opens' = Append(opens, c.opened)
          /\ self' = c.out.self
          /\ pipe' = c.out.pipe
          /\ init_raised' = c.out.raised
    /\ life' = "inited"
    /\ UNCHANGED <<env, reader, del_raised, calls, shared>>

teardown ==
    /\ life = "inited"
    /\ LET d == Destruct(self, pipe, reader)
       IN /\ self' = d.self
          /\ pipe' = d.pipe
          /\ del_raised' = d.raised
    /\ life' = "deleted"
    /\ UNCHANGED <<env, reader, warnings, opens, init_raised, calls, shared>>

\* The consumer closes its end of the pipe.
reader_closes ==
    /\ life = "inited"
    /\ pipe.mode = "open"
    /\ reader = "open"
    /\ reader' = "closed"
    /\ UNCHANGED <<env, life, self, pipe, warnings, opens, init_raised, del_raised, calls, shared>>

\* One notification delivered: the handler's outcome r becomes the state, and
\* the delivery is logged with the error counter and the number of lines the
\* file object held when the handler was entered.
Deliver(op, arg, r) ==
    /\ life = "inited"
    /\ Len(calls) < MaxCalls
    /\ \/ r.raised = "none"
       \/ Cardinality({i \in DOMAIN calls : calls[i].raised # "none"}) < MaxRaised
    /\ self' = r.self
    /\ pipe' = r.pipe
    /\ calls' = Append(calls,
                   [op |-> op, arg |-> arg, raised |-> r.raised,
                    at |-> Len(pipe.lines),
                    errors |-> IF HasAttr(self, "errors") THEN self["errors"] ELSE 0])
    /\ UNCHANGED <<env, life, reader, warnings, opens, init_raised, del_raised, shared>>

on_run_start ==
    \E play \in Plays :
        Deliver("on_run_start", play, v2_playbook_on_play_start(self, pipe, reader, play))

on_run_end ==
    \E stats \in StatsInputs :
        Deliver("on_run_end", stats, v2_playbook_on_stats(self, pipe, reader, stats))

on_task_ok ==
    \E result \in Results :
        Deliver("on_task_ok", result, v2_runner_on_ok(self, pipe, reader, result))

on_task_failed ==
    \E result \in Results :
        Deliver("on_task_failed", result, v2_runner_on_failed(self, pipe, reader, result))

on_host_unreachable ==
    \E result \in Results :
        Deliver("on_host_unreachable", result,
                v2_runner_on_unreachable(self, pipe, reader, result))

on_async_task_failed ==
    \E result \in Results :
        Deliver("on_async_task_failed", result,
                v2_runner_on_async_failed(self, pipe, reader, result))

on_item_ok ==
    \E result \in Results :
        Deliver("on_item_ok", result, v2_runner_item_on_ok(self, pipe, reader, result))

on_item_failed ==
    \E result \in Results :
        Deliver("on_item_failed", result,
                v2_runner_item_on_failed(self, pipe, reader, result))

on_item_skipped ==
    \E result \in Results :
        Deliver("on_item_skipped", result,
                v2_runner_item_on_skipped(self, pipe, reader, result))

on_item_retry ==
    \E result \in Results :
        Deliver("on_item_retry", result,
                v2_runner_item_on_retry(self, pipe, reader, result))

Next ==
    \/ initialize
    \/ teardown
    \/ reader_closes
    \/ on_run_start
    \/ on_run_end
    \/ on_task_ok
    \/ on_task_failed
    \/ on_host_unreachable
    \/ on_async_task_failed
    \/ on_item_ok
    \/ on_item_failed
    \/ on_item_skipped
    \/ on_item_retry

Spec == Init /\ [][Next]_vars

(***************************************************************************)
(* Reading the history and the stream.                                     *)
(***************************************************************************)
FailureOps == {"on_task_failed", "on_host_unreachable", "on_async_task_failed"}

CorrelationFields == {"host", "session", "playbook_id", "playbook_name"}

Returned(i) == calls[i].raised = "none"

\* The lines the file object took during delivery i.
LinesOf(i) ==
    SubSeq(pipe.lines, calls[i].at + 1,
           IF i < Len(calls) THEN calls[i + 1].at ELSE Len(pipe.lines))

Str(s) == <<"string", s>>

Has(l, k) == k \in DOMAIN l.json

IsStatsEvent(l) == Has(l, "stats")

IsSummaryEvent(l) == ~Has(l, "stats") /\ ~Has(l, "ansible_type")

\* No delivery has failed on the stream itself.
NoWriteFailure == \A i \in DOMAIN calls : calls[i].raised # "IOError"

\* The (ansible_type, status) pair the specification gives each handler.
ExpectedPair(op) ==
    CASE op = "on_run_start" -> <<"start", "OK">>
      [] op = "on_task_ok" -> <<"task", "OK">>
      [] op = "on_task_failed" -> <<"task", "FAILED">>
      [] op = "on_host_unreachable" -> <<"task", "UNREACHABLE">>
      [] op = "on_async_task_failed" -> <<"task", "FAILED">>
      [] op = "on_item_ok" -> <<"item", "OK">>
      [] op = "on_item_failed" -> <<"item", "FAILED">>
      [] op = "on_item_skipped" -> <<"item", "SKIPPED">>
      [] op = "on_item_retry" -> <<"item", "RETRY">>

\* The number of lines the specification gives a delivery.
ExpectedLines(c) ==
    IF c.op = "on_run_end" THEN Len(c.arg.processed) + 1 ELSE 1

(***************************************************************************)
(* C1: once __init__ has set the error counter, it equals the number of    *)
(* on_task_failed, on_host_unreachable and on_async_task_failed deliveries *)
(* made so far; no other delivery changes it.                              *)
(***************************************************************************)
C1_ErrorCountIsFailureCalls ==
    HasAttr(self, "errors") =>
        self["errors"] = Cardinality({i \in DOMAIN calls : calls[i].op \in FailureOps})

C1_Witness ==
    /\ HasAttr(self, "errors")
    /\ self["errors"] = 1
    /\ Len(calls) = 3
    /\ calls[1].op = "on_run_start"
    /\ calls[2].op = "on_task_failed"
    /\ calls[3].op = "on_item_failed"
    /\ \A i \in DOMAIN calls : Returned(i)

(***************************************************************************)
(* C2: the summary event that ends an on_run_end delivery has status       *)
(* FAILED exactly when the error counter was above zero when on_run_end    *)
(* was entered, and OK otherwise, whatever the statistics payload says.    *)
(***************************************************************************)
C2_SummaryStatusFromErrorCount ==
    \A i \in DOMAIN calls :
        (calls[i].op = "on_run_end" /\ Returned(i)) =>
            LET ls == LinesOf(i)
            IN /\ ls # <<>>
               /\ IsSummaryEvent(ls[Len(ls)])
               /\ ls[Len(ls)].json.status =
                      Str(IF calls[i].errors > 0 THEN "FAILED" ELSE "OK")

\* A failed run whose only processed host reports no failure in its statistics.
C2_Witness ==
    \E i \in DOMAIN calls :
        /\ calls[i].op = "on_run_end"
        /\ Returned(i)
        /\ calls[i].errors > 0
        /\ calls[i].arg.processed = <<"h10">>
        /\ calls[i].arg.summarize["h10"].failures = 0
        /\ LinesOf(i)[2].json.status = Str("FAILED")
        /\ \E j \in DOMAIN calls : calls[j].op = "on_task_failed"

(***************************************************************************)
(* C3: an on_run_end delivery over N processed hosts appends N statistics  *)
(* events, one per host, in strictly ascending lexicographic order of      *)
(* ansible_host, and then exactly one summary event.                       *)
(***************************************************************************)
C3_StatsSortedThenSummary ==
    \A i \in DOMAIN calls :
        (calls[i].op = "on_run_end" /\ Returned(i)) =>
            LET ls == LinesOf(i)
                keys == calls[i].arg.processed
                n == Len(keys)
            IN /\ Len(ls) = n + 1
               /\ \A k \in 1..n :
                      /\ IsStatsEvent(ls[k])
                      /\ ~Has(ls[k], "status")
               /\ {ls[k].json.ansible_host[2] : k \in 1..n} = {keys[k] : k \in 1..n}
               /\ \A k \in 1..(n - 1) :
                      LexLess(Chars(ls[k].json.ansible_host[2]),
                              Chars(ls[k + 1].json.ansible_host[2]))
               /\ IsSummaryEvent(ls[n + 1])

\* The hosts arrive in descending order and leave in ascending order.
C3_Witness ==
    \E i \in DOMAIN calls :
        /\ calls[i].op = "on_run_end"
        /\ Returned(i)
        /\ calls[i].arg.processed = <<"h2", "h10">>
        /\ LinesOf(i)[1].json.ansible_host = Str("h10")
        /\ LinesOf(i)[2].json.ansible_host = Str("h2")
        /\ IsSummaryEvent(LinesOf(i)[3])

(***************************************************************************)
(* C4: while the stream is open and no write has failed, the stream holds, *)
(* in delivery order, exactly one whole line for each notification other   *)
(* than on_run_end and exactly N+1 whole lines for an on_run_end over N    *)
(* hosts, before on_run_start (Ready) as well as after it (Active).        *)
(***************************************************************************)
C4_OneLinePerNotification ==
    (HasAttr(self, "pipe") /\ NoWriteFailure) =>
        /\ \A i \in DOMAIN calls :
               /\ Len(LinesOf(i)) = ExpectedLines(calls[i])
               /\ \A k \in DOMAIN LinesOf(i) :
                      /\ LinesOf(i)[k].taken = LinesOf(i)[k].bytes
                      /\ LinesOf(i)[k].end = "\n"
        /\ pipe.accepted = SumFun([k \in DOMAIN pipe.lines |-> pipe.lines[k].bytes],
                                  DOMAIN pipe.lines)

\* The same, for the deliveries made once on_run_start has been delivered.
LinesFollowDeliveriesWhenActive ==
    (HasAttr(self, "pipe") /\ NoWriteFailure) =>
        /\ \A i \in DOMAIN calls :
               (\E j \in 1..i : calls[j].op = "on_run_start") =>
                   /\ Returned(i)
                   /\ Len(LinesOf(i)) = ExpectedLines(calls[i])
                   /\ \A k \in DOMAIN LinesOf(i) :
                          /\ LinesOf(i)[k].taken = LinesOf(i)[k].bytes
                          /\ LinesOf(i)[k].end = "\n"
        /\ pipe.accepted = SumFun([k \in DOMAIN pipe.lines |-> pipe.lines[k].bytes],
                                  DOMAIN pipe.lines)

(***************************************************************************)
(* C5: with no pipe path configured, no delivered notification raises and  *)
(* no byte is written.                                                     *)
(***************************************************************************)
C5_DisabledIsSilent ==
    env.pipe_path = None =>
        /\ \A i \in DOMAIN calls : Returned(i)
        /\ pipe.accepted = 0

(***************************************************************************)
(* C6: with the pipe path absent, __init__ surfaces one warning, returns   *)
(* without raising, never calls open() and leaves the instance disabled.   *)
(***************************************************************************)
C6_MissingPathDisables ==
    (life # "new" /\ env.pipe_path = None) =>
        /\ init_raised = "none"
        /\ warnings = 1
        /\ opens = <<>>
        /\ HasAttr(self, "disabled")
        /\ self["disabled"]

(***************************************************************************)
(* C7: with the pipe path set and the pipe openable, __init__ returns and  *)
(* leaves session (the override, else the generated identifier), hostname, *)
(* an absent run id, a zero error counter, a captured start_time and an    *)
(* open stream.                                                            *)
(***************************************************************************)
C7_InitLeavesReady ==
    (life = "inited" /\ calls = <<>> /\ env.pipe_path # None /\ env.can_open) =>
        /\ init_raised = "none"
        /\ HasAttrs(self, {"pipe", "session", "hostname", "uuid", "errors", "start_time"})
        /\ self["session"] = (IF env.session_id = None THEN Uuid1 ELSE env.session_id)
        /\ self["hostname"] = Hostname
        /\ self["uuid"] = None
        /\ self["errors"] = 0
        /\ pipe.mode = "open"

(***************************************************************************)
(* C8: any two events on the stream that both carry one of session, host,  *)
(* playbook_id, playbook_name carry the same value for it.                 *)
(***************************************************************************)
C8_CorrelationFieldsIdentical ==
    \A a \in DOMAIN pipe.lines, b \in DOMAIN pipe.lines :
        \A k \in CorrelationFields :
            (Has(pipe.lines[a], k) /\ Has(pipe.lines[b], k)) =>
                pipe.lines[a].json[k] = pipe.lines[b].json[k]

(***************************************************************************)
(* C9 (as claimed): every event on the stream carries all four correlation *)
(* fields.                                                                 *)
(***************************************************************************)
C9_EveryEventCarriesAllFour ==
    \A a \in DOMAIN pipe.lines : CorrelationFields \subseteq DOMAIN pipe.lines[a].json

(***************************************************************************)
(* C9 (amended): every start, task and item event carries all four         *)
(* correlation fields; a statistics event carries host, playbook_id and    *)
(* playbook_name but no session; the summary event carries playbook_id and *)
(* playbook_name and neither host nor session.                             *)
(***************************************************************************)
C9_CorrelationFieldsByKind ==
    \A a \in DOMAIN pipe.lines :
        LET l == pipe.lines[a]
        IN /\ {"playbook_id", "playbook_name"} \subseteq DOMAIN l.json
           /\ Has(l, "ansible_type") => CorrelationFields \subseteq DOMAIN l.json
           /\ IsStatsEvent(l) => (Has(l, "host") /\ ~Has(l, "session"))
           /\ IsSummaryEvent(l) => (~Has(l, "host") /\ ~Has(l, "session"))

\* A stream holding a start event, a task event, a statistics event and a summary.
C9_Witness ==
    /\ \E a \in DOMAIN pipe.lines :
           Has(pipe.lines[a], "ansible_type") /\ pipe.lines[a].json.ansible_type = Str("start")
    /\ \E a \in DOMAIN pipe.lines :
           Has(pipe.lines[a], "ansible_type") /\ pipe.lines[a].json.ansible_type = Str("task")
    /\ \E a \in DOMAIN pipe.lines : IsStatsEvent(pipe.lines[a])
    /\ \E a \in DOMAIN pipe.lines : IsSummaryEvent(pipe.lines[a])

(***************************************************************************)
(* C10: a delivery other than on_run_end that returns has written one      *)
(* event with its handler's fixed (ansible_type, status) pair; the start   *)
(* event carries no ansible_host and a task or item event carries the      *)
(* name of the host of the result it was delivered with.                   *)
(***************************************************************************)
C10_FixedTypeAndStatus ==
    \A i \in DOMAIN calls :
        (calls[i].op # "on_run_end" /\ Returned(i)) =>
            LET ls == LinesOf(i)
            IN /\ Len(ls) = 1
               /\ Has(ls[1], "ansible_type") /\ Has(ls[1], "status")
               /\ <<ls[1].json.ansible_type[2], ls[1].json.status[2]>>
                      = ExpectedPair(calls[i].op)
               /\ IF calls[i].op = "on_run_start"
                  THEN ~Has(ls[1], "ansible_host")
                  ELSE /\ Has(ls[1], "ansible_host")
                       /\ ls[1].json.ansible_host = Str(calls[i].arg.host)

C10_Witness ==
    /\ Len(calls) = 3
    /\ \A i \in DOMAIN calls : Returned(i)
    /\ calls[1].op = "on_run_start"
    /\ calls[2].op = "on_host_unreachable"
    /\ calls[2].arg.host = "h10"
    /\ calls[3].op = "on_item_skipped"
    /\ calls[3].arg.host = "h2"
    /\ pipe.lines[2].json.status = Str("UNREACHABLE")
    /\ pipe.lines[3].json.ansible_type = Str("item")

(***************************************************************************)
(* More readings of the history.                                           *)
(***************************************************************************)
ResultOps ==
    {"on_task_ok", "on_task_failed", "on_host_unreachable", "on_async_task_failed",
     "on_item_ok", "on_item_failed", "on_item_skipped", "on_item_retry"}

StartedBefore(i) == \E j \in 1..(i - 1) : calls[j].op = "on_run_start"

HasStart == \E i \in DOMAIN calls : calls[i].op = "on_run_start"

FirstStart ==
    CHOOSE i \in DOMAIN calls : calls[i].op = "on_run_start" /\ ~StartedBefore(i)

\* The error counter as delivery i left it.
ErrorsAfter(i) == IF i < Len(calls) THEN calls[i + 1].errors ELSE self["errors"]

\* The whole FAILED and UNREACHABLE task-typed lines on the stream.
FailureLines ==
    {a \in DOMAIN pipe.lines :
        /\ pipe.lines[a].taken = pipe.lines[a].bytes
        /\ Has(pipe.lines[a], "ansible_type")
        /\ pipe.lines[a].json.ansible_type = Str("task")
        /\ pipe.lines[a].json.status \in {Str("FAILED"), Str("UNREACHABLE")}}

(***************************************************************************)
(* C11: the run id and name are absent before the first on_run_start, and  *)
(* from then on they, and the playbook_id and playbook_name of every line  *)
(* written since, are those of that first on_run_start.                    *)
(***************************************************************************)
C11_RunIdAssignedOnce ==
    /\ (HasAttr(self, "uuid") /\ ~HasStart) =>
           (self["uuid"] = None /\ ~HasAttr(self, "playbook"))
    /\ HasStart =>
           /\ self["uuid"] = calls[FirstStart].arg.uuid
           /\ self["playbook"] = calls[FirstStart].arg.name
           /\ \A i \in FirstStart..Len(calls) :
                  \A k \in DOMAIN LinesOf(i) :
                      /\ LinesOf(i)[k].json.playbook_id = Str(calls[FirstStart].arg.uuid)
                      /\ LinesOf(i)[k].json.playbook_name = Str(calls[FirstStart].arg.name)

(***************************************************************************)
(* C12: nothing is buffered: when a delivery has returned, every byte of   *)
(* its lines has reached the pipe, and no write failure is left for        *)
(* teardown to meet.                                                       *)
(***************************************************************************)
C12_NoDeferredWriteFailure ==
    /\ (calls # <<>> /\ Returned(Len(calls)) /\ HasAttr(self, "pipe") /\ life = "inited")
           => Pending(pipe) = 0
    /\ del_raised # "IOError"

C14_ClosedAfterSummary ==
    \A a \in DOMAIN pipe.lines :
        IsSummaryEvent(pipe.lines[a]) =>
            (pipe.mode = "closed" /\ a = Len(pipe.lines))

(***************************************************************************)
(* C14 (amended): on_run_end does not close the emitter: the stream the    *)
(* instance opened stays open after the summary event, until teardown      *)
(* releases it.                                                            *)
(***************************************************************************)
C14_OpenUntilTeardown ==
    HasAttr(self, "pipe") =>
        /\ life = "inited" => pipe.mode = "open"
        /\ life = "deleted" => pipe.mode = "closed"

\* A notification delivered after the summary event put its line after it.
C14_Witness ==
    /\ Len(calls) = 3
    /\ calls[2].op = "on_run_end"
    /\ calls[3].op = "on_task_ok"
    /\ \A i \in DOMAIN calls : Returned(i)
    /\ life = "inited"
    /\ pipe.mode = "open"
    /\ IsSummaryEvent(pipe.lines[Len(pipe.lines) - 1])
    /\ pipe.lines[Len(pipe.lines)].json.ansible_type = Str("task")

(***************************************************************************)
(* C15: the stream is opened at most once; teardown closes a stream that   *)
(* was opened and ends without an error when none was.                     *)
(***************************************************************************)
C15_TeardownReleasesOnce ==
    /\ Len(opens) <= 1
    /\ life = "deleted" =>
           /\ HasAttr(self, "pipe") => pipe.mode = "closed"
           /\ ~HasAttr(self, "pipe") => del_raised = "none"

(***************************************************************************)
(* C16: a task or item notification delivered to an instance with an open  *)
(* stream before any on_run_start returns and writes one event whose       *)
(* playbook_id and playbook_name are null.                                 *)
(***************************************************************************)
C16_DefaultsBeforeRunStart ==
    \A i \in DOMAIN calls :
        (calls[i].op \in ResultOps /\ ~StartedBefore(i) /\ HasAttr(self, "pipe")
             /\ calls[i].raised # "IOError") =>
            /\ Returned(i)
            /\ Len(LinesOf(i)) = 1
            /\ LinesOf(i)[1].json.playbook_id = <<"null">>
            /\ LinesOf(i)[1].json.playbook_name = <<"null">>

(***************************************************************************)
(* C17: a delivery leaves session, hostname and start_time as they were;   *)
(* it changes the error counter only if it is failure-class, the run id    *)
(* and name only if it is on_run_start, and no other attribute.            *)
(***************************************************************************)
Same(a) ==
    /\ HasAttr(self, a) <=> HasAttr(self', a)
    /\ HasAttr(self, a) => self'[a] = self[a]

C17_HandlersFrame ==
    [][Len(calls') = Len(calls) + 1 =>
          /\ Same("session") /\ Same("hostname") /\ Same("start_time")
          /\ ~Same("errors") => calls'[Len(calls')].op \in FailureOps
          /\ ~(Same("uuid") /\ Same("playbook")) => calls'[Len(calls')].op = "on_run_start"
          /\ \A a \in (DOMAIN self) \cup (DOMAIN self') :
                 a \notin {"errors", "uuid", "playbook"} => Same(a)]_vars

C17_Witness ==
    /\ Len(calls) = 3
    /\ calls[1].op = "on_run_start"
    /\ calls[2].op = "on_task_failed"
    /\ calls[3].op = "on_item_retry"
    /\ \A i \in DOMAIN calls : Returned(i)
    /\ self["session"] = "abc"
    /\ self["hostname"] = Hostname
    /\ self["errors"] = 1
    /\ self["uuid"] = calls[1].arg.uuid

(***************************************************************************)
(* C18: every failure-class delivery leaves the error counter one higher   *)
(* than it found it, whether or not it went on to write its event, so the  *)
(* counter is never below the number of whole FAILED and UNREACHABLE       *)
(* task-typed lines on the stream.                                         *)
(***************************************************************************)
C18_CountedBeforeWritten ==
    HasAttr(self, "errors") =>
        /\ \A i \in DOMAIN calls :
               calls[i].op \in FailureOps => ErrorsAfter(i) = calls[i].errors + 1
        /\ self["errors"] >= Cardinality(FailureLines)

\* A failure-class delivery whose write failed: counted, with no whole line.
C18_Witness ==
    /\ HasAttr(self, "errors")
    /\ \E i \in DOMAIN calls :
           /\ calls[i].op \in FailureOps
           /\ calls[i].raised = "IOError"
           /\ StartedBefore(i)
    /\ self["errors"] > Cardinality(FailureLines)

(***************************************************************************)
(* The state machine of two processes sharing one named pipe, whose        *)
(* consumer stays connected.  Each process runs the methods of its own     *)
(* instance; a method's writes to the pipe arrive as one block.            *)
(***************************************************************************)
InitShared ==
    /\ env = SharedEnv
    /\ life = "new"
    /\ self = NoAttrs
    /\ pipe = NoFile
    /\ reader = "open"
    /\ warnings = 0
    /\ opens = <<>>
    /\ init_raised = "none"
    /\ del_raised = "none"
    /\ calls = <<>>
    /\ shared = NoWriters

SharedStep(w, p) ==
    /\ shared' = [procs |-> [shared.procs EXCEPT ![w] = p],
                  fifo |-> Arrive(shared.fifo, w, shared.procs[w].pipe, p.pipe)]
    /\ UNCHANGED <<env, life, self, pipe, reader, warnings, opens, init_raised,
                   del_raised, calls>>

SharedDeliver(w, r) ==
    /\ shared.procs[w].life = "inited"
    /\ shared.procs[w].n < MaxSharedCalls
    /\ SharedStep(w, [life |-> "inited", self |-> r.self, pipe |-> r.pipe,
                      n |-> shared.procs[w].n + 1])

shared_initialize ==
    \E w \in Writers :
        /\ shared.procs[w].life = "new"
        /\ LET c == Construct(SharedEnv)
           IN SharedStep(w, [life |-> "inited", self |-> c.out.self,
                             pipe |-> c.out.pipe, n |-> 0])

shared_teardown ==
    \E w \in Writers :
        /\ shared.procs[w].life = "inited"
        /\ LET d == Destruct(shared.procs[w].self, shared.procs[w].pipe, reader)
           IN SharedStep(w, [life |-> "deleted", self |-> d.self, pipe |-> d.pipe,
                             n |-> shared.procs[w].n])

shared_on_run_start ==
    \E w \in Writers :
        SharedDeliver(w, v2_playbook_on_play_start(shared.procs[w].self,
                             shared.procs[w].pipe, reader, WriterPlay(w)))

shared_on_task_ok ==
    \E w \in Writers, result \in Results :
        SharedDeliver(w, v2_runner_on_ok(shared.procs[w].self,
                             shared.procs[w].pipe, reader, result))

shared_on_task_failed ==
    \E w \in Writers, result \in Results :
        SharedDeliver(w, v2_runner_on_failed(shared.procs[w].self,
                             shared.procs[w].pipe, reader, result))

NextShared ==
    \/ shared_initialize
    \/ shared_teardown
    \/ shared_on_run_start
    \/ shared_on_task_ok
    \/ shared_on_task_failed

SpecShared == InitShared /\ [][NextShared]_vars

\* The offset in a file object's stream at which its j-th line ends.
RECURSIVE LineEnd(_, _)
LineEnd(f, j) == IF j = 0 THEN 0 ELSE LineEnd(f, j - 1) + f.lines[j].bytes

LineEnds(f) == {LineEnd(f, j) : j \in 0..Len(f.lines)}

(***************************************************************************)
(* C19: two processes sharing one pipe interleave at line boundaries only: *)
(* a block that is followed in the pipe by a block of the other process    *)
(* ends at the end of one of its writer's lines.                           *)
(***************************************************************************)
C19_InterleaveAtLineBoundaries ==
    \A k \in 1..(Len(shared.fifo) - 1) :
        shared.fifo[k].writer # shared.fifo[k + 1].writer =>
            shared.fifo[k].to \in LineEnds(shared.procs[shared.fifo[k].writer].pipe)

====
